---------------------------- MODULE Spec2Model ----------------------------
(***************************************************************************)
(* Model of the featureCounts module of MultiQC                            *)
(* (multiqc/modules/featureCounts/feature_counts.py).                      *)
(*                                                                         *)
(* MultiqcModule.__init__ walks the reports that find_log_files yields,    *)
(* hands each to parse_featurecounts_report, then either raises            *)
(* UserWarning (nothing parsed) or writes the data file and calls the      *)
(* table and chart presenters once per file stem.                          *)
(*                                                                         *)
(* Representation.                                                         *)
(*  - A Python dict is a sequence of <<key, value>> pairs with distinct    *)
(*    keys, in insertion order (assigning to an existing key keeps its     *)
(*    place), which is the iteration order of CPython 3.7 and later.       *)
(*  - A report's text is given already cut by splitlines() and             *)
(*    split("\t"): a sequence of lines, each a non-empty sequence of cells *)
(*    (strings).  A blank line is the one-cell line <<"">>.                *)
(*  - Python list indices start at 0, sequences here at 1: the model's     *)
(*    idx is the code's idx + 1.                                           *)
(*  - An int is [t |-> "int", n |-> n, d |-> 1]; a float is the exact      *)
(*    rational [t |-> "float", n |-> n, d |-> d] in lowest terms (the      *)
(*    rounding of IEEE doubles is not modelled).                           *)
(*  - An exception that leaves parse_featurecounts_report is not caught    *)
(*    in __init__, so it ends the run: exc names it.                       *)
(***************************************************************************)
EXTENDS Integers, Sequences, FiniteSets, TLC

VARIABLES
    featurecounts_data,  \* self.featurecounts_data: file stem -> (sample -> record)
    featurecounts_keys,  \* self.featurecounts_keys: list of category names
    data_sources,        \* the add_data_source calls made so far
    log,                 \* the messages given to the logger so far
    calls,               \* the calls to write_data_file and the two presenters
    pc,                  \* where __init__ is
    exc,                 \* the exception that ended the run, or "None"
    nfound,              \* how many reports find_log_files has yielded
    present_i,           \* position of the presenter loop of __init__
    f,                   \* the report of the latest parse call
    file_names,          \* the latest parse call's local file_names
    parsed_data,         \* the latest parse call's local parsed_data
    inserts              \* the records the latest parse call stored, in order

vars == <<featurecounts_data, featurecounts_keys, data_sources, log, calls, pc,
          exc, nfound, present_i, f, file_names, parsed_data, inserts>>

---------------------------------------------------------------------------
(* Bounds of the model.                                                    *)

\* reports that find_log_files yields in one run
MaxReports == 2
\* lines of one report in a run
MaxLines == 2
\* lines of the report of a single parse
MaxParseLines == 3
\* cells after the first cell of a line
MaxCells == 2

---------------------------------------------------------------------------
(* Python dicts as insertion-ordered sequences of pairs.                   *)

Has(d, k) == \E i \in 1..Len(d) : d[i][1] = k

Get(d, k) == d[CHOOSE i \in 1..Len(d) : d[i][1] = k][2]

Put(d, k, v) ==
    IF Has(d, k)
    THEN [i \in 1..Len(d) |-> IF d[i][1] = k THEN <<k, v>> ELSE d[i]]
    ELSE Append(d, <<k, v>>)

InList(s, x) == \E i \in 1..Len(s) : s[i] = x

---------------------------------------------------------------------------
(* Numbers.                                                                *)

IntV(n) == [t |-> "int", n |-> n, d |-> 1]

RECURSIVE GCD(_, _)
GCD(a, b) == IF b = 0 THEN a ELSE GCD(b, a % b)

\* the float n/d, d > 0, n >= 0
FloatV(n, d) == [t |-> "float", n |-> n \div GCD(n, d), d |-> d \div GCD(n, d)]

\* int(val) succeeds on a decimal literal; the cells of the model have one digit
IsIntLiteral(val) == \E n \in 0..9 : ToString(n) = val

IntOf(val) == CHOOSE n \in 0..9 : ToString(n) = val

\* clean_s_name(f_name, root) of BaseMultiqcModule: the file extension is cut off
clean_s_name(f_name, root) ==
    CASE f_name = "a.bam" -> "a"
      [] f_name = "b.bam" -> "b"
      [] OTHER -> f_name

---------------------------------------------------------------------------
(* parse_featurecounts_report, first loop (lines 54-69): the rows.         *)

\* a header row that replaces the names of an earlier header row
HeaderRowOverwrites(names, s) == Tail(s)

\* lines 61-62: a "Status" row appends its cells to file_names
HeaderRow(names, s) == names \o Tail(s)

\* a category appended without the membership test
AppendKeyAlways(keys, k) == Append(keys, k)

\* lines 66-67: a category is appended to featurecounts_keys unless present
AppendKey(keys, k) == IF InList(keys, k) THEN keys ELSE Append(keys, k)

\* lines 68-69: parsed_data[k].append(int(val)) cell by cell; int() raises
\* ValueError on the first cell that is no integer literal
RECURSIVE IntCells(_, _, _)
IntCells(cells, j, acc) ==
    IF j > Len(cells) THEN [exc |-> "None", vals |-> acc]
    ELSE IF ~IsIntLiteral(cells[j]) THEN [exc |-> "ValueError", vals |-> acc]
    ELSE IntCells(cells, j + 1, Append(acc, IntOf(cells[j])))

\* lines 56-69, from line i on
RECURSIVE ReadLines(_, _, _, _, _)
ReadLines(lines, i, names, pd, keys) ==
    IF i > Len(lines)
    THEN [exc |-> "None", file_names |-> names, parsed_data |-> pd, keys |-> keys]
    ELSE LET s == lines[i] IN
         IF Len(s) < 2 THEN ReadLines(lines, i + 1, names, pd, keys)
         ELSE IF s[1] = "Status"
         THEN ReadLines(lines, i + 1, HeaderRow(names, s), pd, keys)
         ELSE LET k == s[1]
                  c == IntCells(Tail(s), 1, <<>>)
                  pd2 == Put(pd, k, c.vals)
                  keys2 == AppendKey(keys, k)
              IN  IF c.exc # "None"
                  THEN [exc |-> c.exc, file_names |-> names,
                        parsed_data |-> pd2, keys |-> keys2]
                  ELSE ReadLines(lines, i + 1, names, pd2, keys2)

---------------------------------------------------------------------------
(* parse_featurecounts_report, second loop (lines 71-96): the samples.     *)

\* lines 78-82, from the j-th category of parsed_data on: data[k] is set and
\* then added into data['Total']; a column shorter than idx is an IndexError
RECURSIVE BuildData(_, _, _, _)
BuildData(pd, j, idx, data) ==
    IF j > Len(pd) THEN [exc |-> "None", data |-> data]
    ELSE LET k == pd[j][1]
             col == pd[j][2]
         IN  IF idx > Len(col) THEN [exc |-> "IndexError", data |-> data]
             ELSE LET d1 == Put(data, k, IntV(col[idx]))
                      d2 == Put(d1, "Total", IntV(Get(d1, "Total").n + col[idx]))
                  IN  BuildData(pd, j + 1, idx, d2)

\* lines 85-86: float(Assigned) / float(Total) * 100.0
PercentAssigned(data) ==
    IF ~Has(data, "Assigned") THEN [exc |-> "None", data |-> data]
    ELSE IF Get(data, "Total").n = 0
    THEN [exc |-> "ZeroDivisionError", data |-> data]
    ELSE [exc |-> "None",
          data |-> Put(data, "percent_assigned",
                       FloatV(Get(data, "Assigned").n * 100, Get(data, "Total").n))]

\* a record with nothing but 'Total' kept
KeepRecordAlways(data) == Len(data) > 0

\* line 89
KeepRecord(data) == Len(data) > 1

\* line 91: the test that guards the "Duplicate sample name" message
DuplicateTest(fdata, file_stem, s_name) == Has(fdata, s_name)

\* lines 90-96; st is the module's state while the call runs
AddToMain(st, r, idx, s_name, data) ==
    LET file_stem == r.s_name
        logged == DuplicateTest(st.data, file_stem, s_name)
        d1 == IF ~Has(st.data, file_stem) THEN Put(st.data, file_stem, <<>>)
              ELSE st.data
        overwrite == Has(Get(d1, file_stem), s_name)
    IN  [st EXCEPT
           !.log = IF logged THEN Append(@, <<"Duplicate sample name found!", s_name>>)
                   ELSE @,
           !.sources = Append(@, <<file_stem, s_name>>),
           !.data = Put(d1, file_stem, Put(Get(d1, file_stem), s_name, data)),
           !.inserts = Append(@, [idx |-> idx, file_stem |-> file_stem,
                                  s_name |-> s_name, data |-> data,
                                  overwrite |-> overwrite, logged |-> logged])]

\* lines 71-96, from the idx-th file name on
RECURSIVE SampleLoop(_, _, _, _, _)
SampleLoop(r, names, pd, idx, st) ==
    IF idx > Len(names) THEN st
    ELSE LET s_name == clean_s_name(names[idx], r.root)
             b == BuildData(pd, 1, idx, << <<"Total", IntV(0)>> >>)
             p == PercentAssigned(b.data)
         IN  IF b.exc # "None" THEN [st EXCEPT !.exc = b.exc]
             ELSE IF p.exc # "None" THEN [st EXCEPT !.exc = p.exc]
             ELSE IF KeepRecord(p.data)
             THEN SampleLoop(r, names, pd, idx + 1, AddToMain(st, r, idx, s_name, p.data))
             ELSE SampleLoop(r, names, pd, idx + 1, st)

\* a call that builds the samples from the rows read so far before the
\* ValueError of a bad cell leaves it
ParseSamplesBeforeRaise(st, r) ==
    LET rd == ReadLines(r.f, 1, <<>>, <<>>, st.keys)
        st1 == [st EXCEPT !.keys = rd.keys, !.exc = "None",
                          !.file_names = rd.file_names,
                          !.parsed_data = rd.parsed_data, !.inserts = <<>>]
        st2 == SampleLoop(r, rd.file_names, rd.parsed_data, 1, st1)
    IN  IF rd.exc # "None" THEN [st2 EXCEPT !.exc = rd.exc] ELSE st2

\* lines 51-96: the whole call, on the module state st and the report r
parse_featurecounts_report(st, r) ==
    LET rd == ReadLines(r.f, 1, <<>>, <<>>, st.keys)
        st1 == [st EXCEPT !.keys = rd.keys, !.exc = rd.exc,
                          !.file_names = rd.file_names,
                          !.parsed_data = rd.parsed_data, !.inserts = <<>>]
    IN  IF rd.exc # "None" THEN st1
        ELSE SampleLoop(r, rd.file_names, rd.parsed_data, 1, st1)

---------------------------------------------------------------------------
(* The reports that find_log_files may yield.                              *)

\* the sequences over S of length 1..n
SeqsUpTo(S, n) == UNION {[1..m -> S] : m \in 1..n}

\* sample file names of a header row, and file stems (f['s_name']) of reports
Names == {"a.bam", "b"}
Stems == {"a", "r"}

\* first cells and value cells of the data rows of a run
Categories == {"Assigned", "Unassigned"}
Cells == {"0", "1", "x"}

\* first cells of the data rows of a single parse: the names that
\* parse_featurecounts_report itself writes into a record are among them
ParseCategories == {"Assigned", "Total", "percent_assigned"}

\* a blank line, the header rows and the data rows
Lines(cats) ==
    {<<"">>}
    \cup {<<"Status">> \o n : n \in SeqsUpTo(Names, MaxCells)}
    \cup {<<k>> \o v : k \in cats, v \in SeqsUpTo(Cells, MaxCells)}

\* the dict that find_log_files yields for a file: its text, stem and directory
Report(t, s) == [f |-> t, s_name |-> s, root |-> "."]

---------------------------------------------------------------------------
(* MultiqcModule.__init__ (lines 26-48).                                   *)

\* lines 27-28, before the first report
Init ==
    /\ featurecounts_data = <<>>
    /\ featurecounts_keys = <<>>
    /\ data_sources = <<>>
    /\ log = <<>>
    /\ calls = <<>>
    /\ pc = "discover"
    /\ exc = "None"
    /\ nfound = 0
    /\ present_i = 1
    /\ f = [f |-> <<>>, s_name |-> "", root |-> ""]
    /\ file_names = <<>>
    /\ parsed_data = <<>>
    /\ inserts = <<>>

\* line 30: one call of parse_featurecounts_report; an exception ends the run
Apply(r) ==
    \E st \in {parse_featurecounts_report(
                  [data |-> featurecounts_data, keys |-> featurecounts_keys,
                   sources |-> data_sources, log |-> log, exc |-> "None",
                   file_names |-> <<>>, parsed_data |-> <<>>, inserts |-> <<>>], r)} :
        /\ featurecounts_data' = st.data
        /\ featurecounts_keys' = st.keys
        /\ data_sources' = st.sources
        /\ log' = st.log
        /\ exc' = st.exc
        /\ file_names' = st.file_names
        /\ parsed_data' = st.parsed_data
        /\ inserts' = st.inserts
        /\ f' = r
        /\ nfound' = nfound + 1
        /\ pc' = IF st.exc = "None" THEN "discover" ELSE "failed"
        /\ UNCHANGED <<calls, present_i>>

\* lines 29-30: find_log_files yields one more report
Discover ==
    /\ pc = "discover"
    /\ nfound < MaxReports
    /\ \E n \in 0..MaxLines : \E t \in [1..n -> Lines(Categories)] :
           \E s \in Stems : Apply(Report(t, s))

\* line 32
NoReportsFound == Len(featurecounts_data) = 0

\* the data file written before the test for an empty collection
NoReportsAfterWrite ==
    /\ pc = "discover"
    /\ Len(featurecounts_data) = 0
    /\ log' = Append(log, <<"Could not find any reports", "">>)
    /\ calls' = Append(calls, <<"write_data_file", "multiqc_featureCounts">>)
    /\ exc' = "UserWarning"
    /\ pc' = "raised"
    /\ UNCHANGED <<featurecounts_data, featurecounts_keys, data_sources,
                   nfound, present_i, f, file_names, parsed_data, inserts>>

\* lines 32-34: the loop is over and nothing was stored
NoReports ==
    /\ pc = "discover"
    /\ NoReportsFound
    /\ log' = Append(log, <<"Could not find any reports", "">>)
    /\ exc' = "UserWarning"
    /\ pc' = "raised"
    /\ UNCHANGED <<featurecounts_data, featurecounts_keys, data_sources, calls,
                   nfound, present_i, f, file_names, parsed_data, inserts>>

\* lines 36-39: the loop is over and something was stored
WriteDataFile ==
    /\ pc = "discover"
    /\ ~NoReportsFound
    /\ log' = Append(log, <<"Found reports", ToString(Len(featurecounts_data))>>)
    /\ calls' = Append(calls, <<"write_data_file", "multiqc_featureCounts">>)
    /\ pc' = "present"
    /\ present_i' = 1
    /\ UNCHANGED <<featurecounts_data, featurecounts_keys, data_sources, exc,
                   nfound, f, file_names, parsed_data, inserts>>

\* lines 41-48: the table and the chart of one file stem
Present ==
    /\ pc = "present"
    /\ present_i <= Len(featurecounts_data)
    /\ calls' = calls \o << <<"general_stats_addcols", featurecounts_data[present_i][1]>>,
                            <<"bargraph.plot", featurecounts_data[present_i][1]>> >>
    /\ present_i' = present_i + 1
    /\ pc' = IF present_i' > Len(featurecounts_data) THEN "done" ELSE "present"
    /\ UNCHANGED <<featurecounts_data, featurecounts_keys, data_sources, log, exc,
                   nfound, f, file_names, parsed_data, inserts>>

Next == Discover \/ NoReports \/ WriteDataFile \/ Present

Spec == Init /\ [][Next]_vars

\* one call of parse_featurecounts_report on a new module
ParseOne ==
    /\ pc = "discover"
    /\ nfound = 0
    /\ \E n \in 0..MaxParseLines : \E t \in [1..n -> Lines(ParseCategories)] :
           \E s \in Stems : Apply(Report(t, s))

NextParse == ParseOne

SpecParse == Init /\ [][NextParse]_vars

---------------------------------------------------------------------------
(* What a report says, read off its lines without running the parser.      *)

IsHeader(s) == Len(s) >= 2 /\ s[1] = "Status"

IsData(s) == Len(s) >= 2 /\ s[1] # "Status"

HeaderRows(r) == SelectSeq(r.f, IsHeader)

DataRows(r) == SelectSeq(r.f, IsData)

CategoryNames(r) == {DataRows(r)[i][1] : i \in 1..Len(DataRows(r))}

\* the last data row of category k: a repeated category keeps its last row
LastRow(r, k) ==
    LET d == DataRows(r)
    IN  d[CHOOSE i \in 1..Len(d) :
              d[i][1] = k /\ \A j \in (i + 1)..Len(d) : d[j][1] # k]

AllNumeric(r) ==
    \A i \in 1..Len(DataRows(r)) :
        \A j \in 2..Len(DataRows(r)[i]) : IsIntLiteral(DataRows(r)[i][j])

\* one header row, and every data row has a value cell for each of its names
WellFormed(r) ==
    /\ Len(HeaderRows(r)) = 1
    /\ \A i \in 1..Len(DataRows(r)) : Len(DataRows(r)[i]) = Len(HeaderRows(r)[1])

\* some data row has more or fewer value cells than the header row has names
Mismatched(r) ==
    /\ Len(HeaderRows(r)) = 1
    /\ \E i \in 1..Len(DataRows(r)) : Len(DataRows(r)[i]) # Len(HeaderRows(r)[1])

\* header rows but no data row
HeaderOnly(r) == HeaderRows(r) # <<>> /\ DataRows(r) = <<>>

\* the sum of the idx-th counts of the categories in K
RECURSIVE SumAt(_, _, _)
SumAt(r, K, idx) ==
    IF K = {} THEN 0
    ELSE LET k == CHOOSE x \in K : TRUE
         IN  IntOf(LastRow(r, k)[idx + 1]) + SumAt(r, K \ {k}, idx)

\* the cells of all rows of rows, first cells left out, one after the other
RECURSIVE Flatten(_)
Flatten(rows) ==
    IF rows = <<>> THEN <<>> ELSE Tail(Head(rows)) \o Flatten(Tail(rows))

\* the lines the first loop reads: all of them, or up to the first data row
\* with a cell that is no integer
BadRow(s) == IsData(s) /\ \E j \in 2..Len(s) : ~IsIntLiteral(s[j])

RowsRead(r) ==
    IF \E i \in 1..Len(r.f) : BadRow(r.f[i])
    THEN SubSeq(r.f, 1, CHOOSE i \in 1..Len(r.f) :
                            BadRow(r.f[i]) /\ \A j \in 1..(i - 1) : ~BadRow(r.f[j]))
    ELSE r.f

\* the categories of rows that are not in keys, each once, in the order met
RECURSIVE NewCategories(_, _)
NewCategories(keys, rows) ==
    IF rows = <<>> THEN <<>>
    ELSE LET s == Head(rows)
         IN  IF IsData(s) /\ ~InList(keys, s[1])
             THEN <<s[1]>> \o NewCategories(Append(keys, s[1]), Tail(rows))
             ELSE NewCategories(keys, Tail(rows))

NoDuplicates(s) == \A i, j \in 1..Len(s) : i # j => s[i] # s[j]

\* a step of the run that is a call of parse_featurecounts_report
ParseStep == nfound' = nfound + 1

Parsed == nfound > 0

---------------------------------------------------------------------------
(* The claims.                                                             *)

\* C1: for a well-formed report, every record the call stores for the idx-th
\* sample has Total equal to the sum of the idx-th counts of all categories
\* of the report.
C1_TotalIsSum ==
    (Parsed /\ WellFormed(f)) =>
        \A i \in 1..Len(inserts) :
            Get(inserts[i].data, "Total") =
                IntV(SumAt(f, CategoryNames(f), inserts[i].idx))

\* C2: a stored record has the key percent_assigned exactly when the report
\* has a category "Assigned", and then percent_assigned * Total = Assigned * 100.
C2_PercentIffAssigned ==
    Parsed =>
        \A i \in 1..Len(inserts) :
            LET data == inserts[i].data
            IN  /\ Has(data, "percent_assigned") <=> "Assigned" \in CategoryNames(f)
                /\ (Has(data, "percent_assigned") /\ Get(data, "Total").n # 0) =>
                       Get(data, "percent_assigned").n * Get(data, "Total").n
                           = Get(data, "Assigned").n * 100 * Get(data, "percent_assigned").d

\* C3: featurecounts_keys never holds a name twice, and every call of parse
\* only appends to it the categories it reads that are new, each once, in the
\* order it first meets them; no other step changes it.
C3_CategoryOrder ==
    [][/\ NoDuplicates(featurecounts_keys')
       /\ featurecounts_keys' =
              featurecounts_keys \o
                  (IF ParseStep THEN NewCategories(featurecounts_keys, RowsRead(f'))
                   ELSE <<>>)]_vars

\* two reports parsed; the second names first a category the first report
\* had and then a new one, and the list holds both once, the older first
C3_Witness ==
    /\ nfound = 2
    /\ Len(f.f) = 2
    /\ IsData(f.f[1]) /\ IsData(f.f[2])
    /\ f.f[1][1] = "Assigned" /\ f.f[2][1] = "Unassigned"
    /\ featurecounts_keys = <<"Unassigned", "Assigned">>

\* C4: a report in which a data row has more or fewer value cells than the
\* header row has names makes parse fail with a parse error (the ValueError
\* that a bad cell raises), never with an IndexError and never by going on.
C4_MismatchIsParseError ==
    (Parsed /\ Mismatched(f)) => exc = "ValueError"

\* C5: when "Assigned" is a category and the counts of a sample sum to zero,
\* parse completes without a division-by-zero fault.
C5_ZeroTotalNoFault ==
    (/\ Parsed
     /\ WellFormed(f)
     /\ AllNumeric(f)
     /\ "Assigned" \in CategoryNames(f)
     /\ \E idx \in 1..(Len(HeaderRows(f)[1]) - 1) : SumAt(f, CategoryNames(f), idx) = 0)
    => exc = "None"

\* C6: a call of parse on a report with header rows and no data row stores no
\* record and leaves featurecounts_data (and the registered sources) as it was.
C6_HeaderOnlyAddsNothing ==
    [][(ParseStep /\ HeaderOnly(f')) =>
           /\ featurecounts_data' = featurecounts_data
           /\ data_sources' = data_sources
           /\ inserts' = <<>>
           /\ exc' = "None"]_vars

\* a header-only report parsed after a report that stored a record
C6_Witness ==
    /\ nfound = 2
    /\ HeaderOnly(f)
    /\ Len(file_names) > 0
    /\ featurecounts_data # <<>>

\* C7: the "Duplicate sample name" message is logged for a stored record
\* exactly when that record replaces one under the same file stem and name.
C7_LogIffOverwrite ==
    \A i \in 1..Len(inserts) : inserts[i].logged <=> inserts[i].overwrite

\* C8: a run in which find_log_files yields nothing ends with UserWarning
\* raised and no call to write_data_file or a presenter; and UserWarning is
\* never raised after such a call.
C8_NoReportsNoCalls ==
    /\ (nfound = 0 /\ pc # "discover") =>
           (pc = "raised" /\ exc = "UserWarning" /\ calls = <<>>)
    /\ exc = "UserWarning" => calls = <<>>

\* the run without reports, after the raise
C8_Witness == nfound = 0 /\ pc = "raised" /\ exc = "UserWarning"

\* C9 as claimed: after the rows of a report are read, file_names holds the
\* cells of its last header row only.
C9_LastHeaderOnly ==
    (Parsed /\ exc # "ValueError" /\ HeaderRows(f) # <<>>) =>
        file_names = Tail(HeaderRows(f)[Len(HeaderRows(f))])

\* C9 as amended: after the rows of a report are read, file_names holds the
\* cells of all its header rows, one after the other, and a call that stores
\* records and does not fail stores one for each of them, in that order.
C9_HeadersAccumulate ==
    (Parsed /\ exc # "ValueError") =>
        /\ file_names = Flatten(HeaderRows(f))
        /\ (exc = "None" /\ inserts # <<>>) =>
               [i \in 1..Len(inserts) |-> inserts[i].idx] = [i \in 1..Len(file_names) |-> i]

\* a report with two header rows and a data row: a record is stored for the
\* name of the first header row too
C9_Witness ==
    /\ Parsed
    /\ exc = "None"
    /\ Len(HeaderRows(f)) = 2
    /\ Len(inserts) = 2
    /\ inserts[1].s_name = clean_s_name(HeaderRows(f)[1][2], f.root)
    /\ inserts[1].s_name # inserts[2].s_name

\* C10: a call of parse that fails on a cell that is no integer stores no
\* record: featurecounts_data and the registered sources are as before it.
C10_ValueErrorStoresNothing ==
    [][(ParseStep /\ exc' = "ValueError") =>
           /\ featurecounts_data' = featurecounts_data
           /\ data_sources' = data_sources
           /\ inserts' = <<>>]_vars

\* a failing second report with a header row, after a report that stored a
\* record; the category of the failing row was still added to the list
C10_Witness ==
    /\ nfound = 2
    /\ exc = "ValueError"
    /\ featurecounts_data # <<>>
    /\ Len(file_names) > 0
    /\ Len(featurecounts_keys) = 2
    /\ \A i \in 1..Len(featurecounts_data) :
           \A j \in 1..Len(featurecounts_data[i][2]) :
               ~Has(featurecounts_data[i][2][j][2], featurecounts_keys[2])

=============================================================================
